---- MODULE Spec2Model ----
(***************************************************************************)
(* Model of kavirajk/clock: the version-vector / dot algebra (src/dvv.rs), *)
(* the strict vector-clock comparator (src/vclock.rs) and the sibling-     *)
(* resolving key-value layer built on them (examples/kv.rs).               *)
(*                                                                         *)
(* A HashMap<String, i64> is a function whose DOMAIN is the set of keys    *)
(* present; a Vec is a sequence; Dot(String, i64) is the pair <<n, c>>.    *)
(***************************************************************************)
EXTENDS Integers, Sequences, FiniteSets, TLC

\* ------------------------------------------------------------------ bounds

\* Largest counter any actor reaches in a vector (caps the increments).
MaxCount == 2

\* Largest sum of the counters of the store's global context (caps the writes).
MaxTotal == 4

\* Largest number of writes the snapshot-holding clients apply.
MaxClientWrites == 3

\* ------------------------------------------------------------ input sets

\* The writers, the keys, the payload of a write on the store of Spec, and
\* the payloads main's four writes draw from.
Actors == {"A", "B", "C"}
Keys == {"x", "y"}
Vals == {10}
MainVals == {10, 15, 20, 30}

\* Every vector increments can build: actors present carry counters >= 1.
Vectors == UNION {[S -> 1..MaxCount] : S \in SUBSET Actors}

\* ------------------------------------------------- dvv.rs: VersionVector

\* VersionVector::new
VV_new == << >>

\* HashMap::get with the `None => 0` match used throughout both files.
GetOr0(vector, k) == IF k \in DOMAIN vector THEN vector[k] ELSE 0

\* VersionVector::all_keys
VV_all_keys(clocks) == UNION {DOMAIN clocks[i] : i \in DOMAIN clocks}

\* An increment that inserts 0 for an absent actor (`or_insert(0)`).
VV_increment_insert0(self, node_id) ==
    IF node_id \in DOMAIN self
    THEN [self EXCEPT ![node_id] = @ + 1]
    ELSE [k \in DOMAIN self \cup {node_id} |-> IF k = node_id THEN 0 ELSE self[k]]

\* VersionVector::increment (kv.rs calls it as `inc`)
VV_increment(self, node_id) ==
    IF node_id \in DOMAIN self
    THEN [self EXCEPT ![node_id] = @ + 1]
    ELSE [k \in DOMAIN self \cup {node_id} |-> IF k = node_id THEN 1 ELSE self[k]]

\* A descends that rejects equal counters (`<=` for `<`).
VV_descends_strict(self, w) ==
    LET keys == VV_all_keys(<<self, w>>)
    IN  ~ \E k \in keys : GetOr0(self, k) <= GetOr0(w, k)

\* VersionVector::descends
VV_descends(self, w) ==
    LET keys == VV_all_keys(<<self, w>>)
    IN  ~ \E k \in keys : GetOr0(self, k) < GetOr0(w, k)

\* A concurrent that tests one direction only.
VV_concurrent_one_way(self, w) == ~VV_descends(self, w)

\* VersionVector::concurrent
VV_concurrent(self, w) == ~(VV_descends(self, w) \/ VV_descends(w, self))

\* A descends_dot with `>` for `>=`.
VV_descends_dot_strict(self, w) == GetOr0(self, w[1]) > w[2]

\* VersionVector::descends_dot
VV_descends_dot(self, w) == GetOr0(self, w[1]) >= w[2]

\* std::cmp::max
Max(e1, e2) == IF e2 >= e1 THEN e2 ELSE e1

\* A merge by point-wise min.
VV_merge_min(self, w) ==
    LET keys == VV_all_keys(<<self, w>>)
    IN  [k \in keys |-> IF GetOr0(self, k) <= GetOr0(w, k) THEN GetOr0(self, k) ELSE GetOr0(w, k)]

\* A merge that walks the keys of w only.
VV_merge_w_keys(self, w) ==
    LET keys == VV_all_keys(<<w>>)
    IN  [k \in keys |-> Max(GetOr0(self, k), GetOr0(w, k))]

\* VersionVector::merge
VV_merge(self, w) ==
    LET keys == VV_all_keys(<<self, w>>)
    IN  [k \in keys |-> Max(GetOr0(self, k), GetOr0(w, k))]

\* VersionVector::get_dot
VV_get_dot(self, node_id) == <<node_id, GetOr0(self, node_id)>>

\* Dot::descends_vv
Dot_descends_vv(self, w) == self[2] >= GetOr0(w, self[1])

\* Dot::descends(&Dot), called by merge_siblings; its body is not among the
\* sources.  Dot-to-dot dominance: same actor, counter at least as large.
Dot_descends(self, w) == self[1] = w[1] /\ self[2] >= w[2]

\* ---------------------------------------------------- vclock.rs: VectorClock

\* VectorClock::new
VC_new == << >>

\* VectorClock::all_keys
VC_all_keys(clocks) == UNION {DOMAIN clocks[i] : i \in DOMAIN clocks}

\* VectorClock::increment
VC_increment(self, node_id) ==
    IF node_id \in DOMAIN self
    THEN [self EXCEPT ![node_id] = @ + 1]
    ELSE [k \in DOMAIN self \cup {node_id} |-> IF k = node_id THEN 1 ELSE self[k]]

\* A happened_before that forgets the strictly-smaller element (`sc >= 0`).
VC_happened_before_no_strict(self, w) ==
    LET keys == VC_all_keys(<<self, w>>)
        sc == Cardinality({k \in keys : GetOr0(self, k) < GetOr0(w, k)})
    IN  IF \E k \in keys : GetOr0(self, k) > GetOr0(w, k)
        THEN FALSE
        ELSE sc >= 0

\* VectorClock::happened_before: false as soon as some v1 > v2, otherwise
\* sc (the number of keys with v1 < v2) must be positive.
VC_happened_before(self, w) ==
    LET keys == VC_all_keys(<<self, w>>)
        sc == Cardinality({k \in keys : GetOr0(self, k) < GetOr0(w, k)})
    IN  IF \E k \in keys : GetOr0(self, k) > GetOr0(w, k)
        THEN FALSE
        ELSE sc > 0

\* A concurrent that needs both directions to fail (`&&` for `||`).
VC_concurrent_and(self, w) == ~(VC_happened_before(self, w) /\ VC_happened_before(w, self))

\* VectorClock::concurrent
VC_concurrent(self, w) == ~(VC_happened_before(self, w) \/ VC_happened_before(w, self))

\* A merge that walks the keys of w only.
VC_merge_w_keys(self, w) ==
    LET keys == VC_all_keys(<<w>>)
    IN  [k \in keys |-> Max(GetOr0(self, k), GetOr0(w, k))]

\* VectorClock::merge
VC_merge(self, w) ==
    LET keys == VC_all_keys(<<self, w>>)
    IN  [k \in keys |-> Max(GetOr0(self, k), GetOr0(w, k))]

\* ------------------------------------------------------- kv.rs: KVStore

\* struct Value {val, dot}
Value(val, dot) == [val |-> val, dot |-> dot]

\* Option<Vec<Value>>
None == [some |-> FALSE, vec |-> << >>]
Some(v) == [some |-> TRUE, vec |-> v]

\* KVStore::new
KV_new == [store |-> << >>, vv |-> VV_new]

\* HashMap::insert on the key -> siblings map
MapInsert(map, key, v) == [k \in DOMAIN map \cup {key} |-> IF k = key THEN v ELSE map[k]]

\* A get that hands out a fresh context instead of a clone of vv.
KV_get_fresh_context(self, key) ==
    IF key \notin DOMAIN self.store
    THEN <<None, VV_new>>
    ELSE <<Some(self.store[key]), VV_new>>

\* KVStore::get
KV_get(self, key) ==
    IF key \notin DOMAIN self.store
    THEN <<None, self.vv>>
    ELSE <<Some(self.store[key]), self.vv>>

\* A merge_siblings that never drops a sibling.
KV_merge_siblings_keep_all(self, key, new_val) ==
    LET old == KV_get(self, key)[1]
    IN  IF ~old.some
        THEN [self EXCEPT !.store = MapInsert(self.store, key, <<new_val>>)]
        ELSE [self EXCEPT !.store = MapInsert(self.store, key, Append(old.vec, new_val))]

\* A merge_siblings that drops every sibling whose dot the store's context,
\* by then the new write's frontier, contains.
KV_merge_siblings_context_check(self, key, new_val) ==
    LET old == KV_get(self, key)[1]
    IN  IF ~old.some
        THEN [self EXCEPT !.store = MapInsert(self.store, key, <<new_val>>)]
        ELSE LET keep(v) == ~VV_descends_dot(self.vv, v.dot)
                 updated == Append(SelectSeq(old.vec, keep), new_val)
             IN  [self EXCEPT !.store = MapInsert(self.store, key, updated)]

\* A merge_siblings with the test inverted: it keeps what the new dot dominates.
KV_merge_siblings_inverted(self, key, new_val) ==
    LET old == KV_get(self, key)[1]
    IN  IF ~old.some
        THEN [self EXCEPT !.store = MapInsert(self.store, key, <<new_val>>)]
        ELSE LET keep(v) == Dot_descends(new_val.dot, v.dot)
                 updated == Append(SelectSeq(old.vec, keep), new_val)
             IN  [self EXCEPT !.store = MapInsert(self.store, key, updated)]

\* KVStore::merge_siblings
KV_merge_siblings(self, key, new_val) ==
    LET old == KV_get(self, key)[1]
    IN  IF ~old.some
        THEN [self EXCEPT !.store = MapInsert(self.store, key, <<new_val>>)]
        ELSE LET keep(v) == ~Dot_descends(new_val.dot, v.dot)
                 updated == Append(SelectSeq(old.vec, keep), new_val)
             IN  [self EXCEPT !.store = MapInsert(self.store, key, updated)]

\* A set that overwrites the siblings on the slow path too.
KV_set_always_overwrite(self, client_id, context, key, val) ==
    IF VV_descends(context, self.vv)
    THEN LET vv1 == VV_increment(self.vv, client_id)
             dot == VV_get_dot(vv1, client_id)
             new_obj == Value(val, dot)
         IN  [store |-> MapInsert(self.store, key, <<new_obj>>), vv |-> vv1]
    ELSE LET frontier == VV_increment(VV_merge(self.vv, context), client_id)
             dot == VV_get_dot(frontier, client_id)
             new_obj == Value(val, dot)
         IN  [store |-> MapInsert(self.store, key, <<new_obj>>), vv |-> frontier]

\* A set without the fast path: every write merges and reconciles.
KV_set_always_merge(self, client_id, context, key, val) ==
    LET frontier == VV_increment(VV_merge(self.vv, context), client_id)
        dot == VV_get_dot(frontier, client_id)
        new_obj == Value(val, dot)
    IN  KV_merge_siblings([self EXCEPT !.vv = frontier], key, new_obj)

\* A set whose slow path increments vv without merging the context in.
KV_set_no_merge(self, client_id, context, key, val) ==
    IF VV_descends(context, self.vv)
    THEN LET vv1 == VV_increment(self.vv, client_id)
             dot == VV_get_dot(vv1, client_id)
             new_obj == Value(val, dot)
         IN  [store |-> MapInsert(self.store, key, <<new_obj>>), vv |-> vv1]
    ELSE LET frontier == VV_increment(self.vv, client_id)
             dot == VV_get_dot(frontier, client_id)
             new_obj == Value(val, dot)
         IN  KV_merge_siblings([self EXCEPT !.vv = frontier], key, new_obj)

\* A set that takes the dot before incrementing vv.
KV_set_stale_dot(self, client_id, context, key, val) ==
    IF VV_descends(context, self.vv)
    THEN LET vv1 == VV_increment(self.vv, client_id)
             dot == VV_get_dot(self.vv, client_id)
             new_obj == Value(val, dot)
         IN  [store |-> MapInsert(self.store, key, <<new_obj>>), vv |-> vv1]
    ELSE LET merged == VV_merge(self.vv, context)
             frontier == VV_increment(merged, client_id)
             dot == VV_get_dot(merged, client_id)
             new_obj == Value(val, dot)
         IN  KV_merge_siblings([self EXCEPT !.vv = frontier], key, new_obj)

\* A set whose slow path forgets `self.vv = frontier`.
KV_set_no_vv_update(self, client_id, context, key, val) ==
    IF VV_descends(context, self.vv)
    THEN LET vv1 == VV_increment(self.vv, client_id)
             dot == VV_get_dot(vv1, client_id)
             new_obj == Value(val, dot)
         IN  [store |-> MapInsert(self.store, key, <<new_obj>>), vv |-> vv1]
    ELSE LET frontier == VV_increment(VV_merge(self.vv, context), client_id)
             dot == VV_get_dot(frontier, client_id)
             new_obj == Value(val, dot)
         IN  KV_merge_siblings(self, key, new_obj)

\* A set whose path test is turned round: fast when vv descends the context.
KV_set_reversed_test(self, client_id, context, key, val) ==
    IF VV_descends(self.vv, context)
    THEN LET vv1 == VV_increment(self.vv, client_id)
             dot == VV_get_dot(vv1, client_id)
             new_obj == Value(val, dot)
         IN  [store |-> MapInsert(self.store, key, <<new_obj>>), vv |-> vv1]
    ELSE LET frontier == VV_increment(VV_merge(self.vv, context), client_id)
             dot == VV_get_dot(frontier, client_id)
             new_obj == Value(val, dot)
         IN  KV_merge_siblings([self EXCEPT !.vv = frontier], key, new_obj)

\* KVStore::set
KV_set(self, client_id, context, key, val) ==
    IF VV_descends(context, self.vv)
    THEN LET vv1 == VV_increment(self.vv, client_id)
             dot == VV_get_dot(vv1, client_id)
             new_obj == Value(val, dot)
         IN  [store |-> MapInsert(self.store, key, <<new_obj>>), vv |-> vv1]
    ELSE LET frontier == VV_increment(VV_merge(self.vv, context), client_id)
             dot == VV_get_dot(frontier, client_id)
             new_obj == Value(val, dot)
         IN  KV_merge_siblings([self EXCEPT !.vv = frontier], key, new_obj)

\* ------------------------------------------------------------ the state

VARIABLES
    kv,         \* the KVStore: [store |-> key -> siblings, vv |-> global context]
    call,       \* the last call made on the store, with its arguments
    ret,        \* what the last KVStore::get returned
    writers,    \* the actors that have written to the store
    snap,       \* per client, the context its last read returned
    seen,       \* per client: "unread", "fresh" (no write since its read) or "stale"
    pc,         \* main's position
    ctx_a,      \* main's local ctx_a
    ctx_b,      \* main's local ctx_b
    ctx_c,      \* main's local ctx_c
    main_key,   \* the key main works on
    main_vals,  \* the payloads of main's four writes, in order
    a,          \* three vectors built by increments and merges
    b,
    c

vars == <<kv, call, ret, writers, snap, seen, pc, ctx_a, ctx_b, ctx_c, main_key, main_vals, a, b, c>>

kvVars == <<kv, call, ret, writers>>
clientVars == <<snap, seen>>
mainVars == <<pc, ctx_a, ctx_b, ctx_c, main_key, main_vals>>
algVars == <<a, b, c>>

NoCall == [op |-> "new", client_id |-> "", context |-> VV_new, key |-> "", val |-> 0]
GetCall(key) == [op |-> "get", client_id |-> "", context |-> VV_new, key |-> key, val |-> 0]
SetCall(client_id, context, key, val) ==
    [op |-> "set", client_id |-> client_id, context |-> context, key |-> key, val |-> val]
NoRet == <<None, VV_new>>

\* The sum of a vector's counters: one pair <<k, i>> for each unit of each counter.
Total(vector) == Cardinality({p \in (DOMAIN vector) \X (1..MaxCount) : p[2] <= vector[p[1]]})

\* The bounds on a write: the counter it mints stays within MaxCount and the
\* global context it leaves within MaxTotal.
InBounds(self, client_id, context) ==
    /\ Max(GetOr0(self.vv, client_id), GetOr0(context, client_id)) < MaxCount
    /\ Total(VV_increment(VV_merge(self.vv, context), client_id)) <= MaxTotal

\* The contexts with which client_id can write within the bounds.
Writable(self, client_id) == {context \in Vectors : InBounds(self, client_id, context)}

\* ------------------------------------------- Spec: any reads and writes

InitKV ==
    /\ kv = KV_new
    /\ call = NoCall
    /\ ret = NoRet
    /\ writers = {}

InitClientIdle ==
    /\ snap = [client_id \in Actors |-> VV_new]
    /\ seen = [client_id \in Actors |-> "unread"]

InitMainIdle ==
    /\ pc = "idle"
    /\ ctx_a = VV_new
    /\ ctx_b = VV_new
    /\ ctx_c = VV_new
    /\ main_key = "x"
    /\ main_vals = <<10, 15, 20, 30>>

InitAlgIdle ==
    /\ a = VV_new
    /\ b = VV_new
    /\ c = VV_new

Init == InitKV /\ InitClientIdle /\ InitMainIdle /\ InitAlgIdle

\* kv.get(key)
Get(key) ==
    /\ ret' = KV_get(kv, key)
    /\ call' = GetCall(key)
    /\ UNCHANGED <<kv, writers, clientVars, mainVars, algVars>>

\* kv = kv.set(client_id, &context, key, val)
SetStep(client_id, context, key, val) ==
    /\ kv' = KV_set(kv, client_id, context, key, val)
    /\ call' = SetCall(client_id, context, key, val)
    /\ ret' = NoRet
    /\ writers' = writers \cup {client_id}
    /\ UNCHANGED <<clientVars, mainVars, algVars>>

\* A client writes, with any context within the bounds.
Set(client_id) ==
    \E context \in Writable(kv, client_id), key \in Keys, val \in Vals :
        SetStep(client_id, context, key, val)

Next ==
    \/ \E key \in Keys : Get(key)
    \/ \E client_id \in Actors : Set(client_id)

Spec == Init /\ [][Next]_vars

\* ------- ClientSpec: every written context is the snapshot of a read

\* let (_, ctx) = kv.get(key), by client_id; a client whose snapshot is still
\* fresh would read the same context again (kv.rs:30), so it does not re-read
ClientGet(client_id, key) ==
    /\ seen[client_id] # "fresh"
    /\ ret' = KV_get(kv, key)
    /\ snap' = [snap EXCEPT ![client_id] = ret'[2]]
    /\ seen' = [seen EXCEPT ![client_id] = "fresh"]
    /\ call' = GetCall(key)
    /\ UNCHANGED <<kv, writers, mainVars, algVars>>

\* kv = kv.set(client_id, &ctx, key, val), ctx being what client_id last read
ClientSet(client_id, key, val) ==
    /\ seen[client_id] # "unread"
    /\ InBounds(kv, client_id, snap[client_id])
    /\ Total(kv.vv) < MaxClientWrites
    /\ kv' = KV_set(kv, client_id, snap[client_id], key, val)
    /\ call' = SetCall(client_id, snap[client_id], key, val)
    /\ ret' = NoRet
    /\ writers' = writers \cup {client_id}
    /\ seen' = [k \in Actors |-> IF seen[k] = "fresh" THEN "stale" ELSE seen[k]]
    /\ UNCHANGED <<snap, mainVars, algVars>>

ClientNext ==
    \/ \E client_id \in Actors, key \in Keys : ClientGet(client_id, key)
    \/ \E client_id \in Actors, key \in Keys, val \in Vals : ClientSet(client_id, key, val)

ClientSpec == Init /\ [][ClientNext]_vars

\* --------------------------------------------- MainSpec: kv.rs's main

InitMain ==
    /\ InitKV
    /\ InitClientIdle
    /\ InitAlgIdle
    /\ pc = "get_a"
    /\ ctx_a = VV_new
    /\ ctx_b = VV_new
    /\ ctx_c = VV_new
    /\ main_key \in Keys
    /\ main_vals \in [1..4 -> MainVals]

\* assert_eq!(n, kv.store[key].len()): indexing a missing key panics too.
AssertLen(self, key, n) == key \in DOMAIN self.store /\ Len(self.store[key]) = n

\* let (_, ctx_a) = kv.get("x");
MainGetA ==
    /\ pc = "get_a"
    /\ ret' = KV_get(kv, main_key)
    /\ ctx_a' = ret'[2]
    /\ call' = GetCall(main_key)
    /\ pc' = "get_b"
    /\ UNCHANGED <<kv, writers, clientVars, ctx_b, ctx_c, main_key, main_vals, algVars>>

\* let (_, ctx_b) = kv.get("x");
MainGetB ==
    /\ pc = "get_b"
    /\ ret' = KV_get(kv, main_key)
    /\ ctx_b' = ret'[2]
    /\ call' = GetCall(main_key)
    /\ pc' = "set_a"
    /\ UNCHANGED <<kv, writers, clientVars, ctx_a, ctx_c, main_key, main_vals, algVars>>

\* kv = kv.set("A", &ctx_a, "x", 10);
MainSetA ==
    /\ pc = "set_a"
    /\ kv' = KV_set(kv, "A", ctx_a, main_key, main_vals[1])
    /\ call' = SetCall("A", ctx_a, main_key, main_vals[1])
    /\ ret' = NoRet
    /\ writers' = writers \cup {"A"}
    /\ pc' = "set_b"
    /\ UNCHANGED <<clientVars, ctx_a, ctx_b, ctx_c, main_key, main_vals, algVars>>

\* kv = kv.set("B", &ctx_b, "x", 15); assert_eq!(2, kv.store["x"].len());
MainSetB ==
    /\ pc = "set_b"
    /\ kv' = KV_set(kv, "B", ctx_b, main_key, main_vals[2])
    /\ call' = SetCall("B", ctx_b, main_key, main_vals[2])
    /\ ret' = NoRet
    /\ writers' = writers \cup {"B"}
    /\ pc' = IF AssertLen(kv', main_key, 2) THEN "get_c" ELSE "panic"
    /\ UNCHANGED <<clientVars, ctx_a, ctx_b, ctx_c, main_key, main_vals, algVars>>

\* let (_, ctx_c) = kv.get("x");
MainGetC ==
    /\ pc = "get_c"
    /\ ret' = KV_get(kv, main_key)
    /\ ctx_c' = ret'[2]
    /\ call' = GetCall(main_key)
    /\ pc' = "set_c"
    /\ UNCHANGED <<kv, writers, clientVars, ctx_a, ctx_b, main_key, main_vals, algVars>>

\* kv = kv.set("C", &ctx_c, "x", 20); assert_eq!(1, kv.store["x"].len());
MainSetC ==
    /\ pc = "set_c"
    /\ kv' = KV_set(kv, "C", ctx_c, main_key, main_vals[3])
    /\ call' = SetCall("C", ctx_c, main_key, main_vals[3])
    /\ ret' = NoRet
    /\ writers' = writers \cup {"C"}
    /\ pc' = IF AssertLen(kv', main_key, 1) THEN "set_b2" ELSE "panic"
    /\ UNCHANGED <<clientVars, ctx_a, ctx_b, ctx_c, main_key, main_vals, algVars>>

\* kv = kv.set("B", &ctx_b, "x", 30); assert_eq!(2, kv.store["x"].len());
MainSetB2 ==
    /\ pc = "set_b2"
    /\ kv' = KV_set(kv, "B", ctx_b, main_key, main_vals[4])
    /\ call' = SetCall("B", ctx_b, main_key, main_vals[4])
    /\ ret' = NoRet
    /\ writers' = writers \cup {"B"}
    /\ pc' = IF AssertLen(kv', main_key, 2) THEN "done" ELSE "panic"
    /\ UNCHANGED <<clientVars, ctx_a, ctx_b, ctx_c, main_key, main_vals, algVars>>

MainNext ==
    \/ MainGetA
    \/ MainGetB
    \/ MainSetA
    \/ MainSetB
    \/ MainGetC
    \/ MainSetC
    \/ MainSetB2

MainSpec == InitMain /\ [][MainNext]_vars

\* ------------------- AlgSpec: vectors built by increments and merges

InitAlg == InitKV /\ InitClientIdle /\ InitMainIdle /\ InitAlgIdle

\* x = x.increment(node_id), VersionVector's
IncrementVV(node_id) ==
    /\ UNCHANGED <<kvVars, clientVars, mainVars>>
    /\ \/ GetOr0(a, node_id) < MaxCount /\ a' = VV_increment(a, node_id) /\ UNCHANGED <<b, c>>
       \/ GetOr0(b, node_id) < MaxCount /\ b' = VV_increment(b, node_id) /\ UNCHANGED <<a, c>>
       \/ GetOr0(c, node_id) < MaxCount /\ c' = VV_increment(c, node_id) /\ UNCHANGED <<a, b>>

\* x = x.increment(node_id), VectorClock's
IncrementVC(node_id) ==
    /\ UNCHANGED <<kvVars, clientVars, mainVars>>
    /\ \/ GetOr0(a, node_id) < MaxCount /\ a' = VC_increment(a, node_id) /\ UNCHANGED <<b, c>>
       \/ GetOr0(b, node_id) < MaxCount /\ b' = VC_increment(b, node_id) /\ UNCHANGED <<a, c>>
       \/ GetOr0(c, node_id) < MaxCount /\ c' = VC_increment(c, node_id) /\ UNCHANGED <<a, b>>

\* c = a.merge(&b), VersionVector's
MergeVV ==
    /\ c' = VV_merge(a, b)
    /\ UNCHANGED <<a, b, kvVars, clientVars, mainVars>>

\* c = a.merge(&b), VectorClock's
MergeVC ==
    /\ c' = VC_merge(a, b)
    /\ UNCHANGED <<a, b, kvVars, clientVars, mainVars>>

AlgNext ==
    \/ \E node_id \in Actors : IncrementVV(node_id)
    \/ \E node_id \in Actors : IncrementVC(node_id)
    \/ MergeVV
    \/ MergeVC

AlgSpec == InitAlg /\ [][AlgNext]_vars

\* ------------------------------------------------------------- claims

\* The siblings stored under key, none when the key is absent.
Siblings(self, key) == IF key \in DOMAIN self.store THEN self.store[key] ELSE << >>

\* C1: main's scenario. A and B both read the empty context; after A's and
\* then B's write with it the key has exactly 2 siblings; after C's write with
\* the context C just read it has exactly 1; after B's second write with its
\* stale empty context it has exactly 2 again, and no assertion of main fails.
Claim_C1 ==
    /\ pc # "panic"
    /\ pc \notin {"get_a", "get_b"} => ctx_a = VV_new /\ ctx_b = VV_new
    /\ pc \in {"get_c", "set_c"} => Len(Siblings(kv, main_key)) = 2
    /\ pc = "set_c" => ctx_c = kv.vv
    /\ pc = "set_b2" => Len(Siblings(kv, main_key)) = 1
    /\ pc = "done" => Len(Siblings(kv, main_key)) = 2

Witness_C1 ==
    /\ pc = "done"
    /\ main_key = "x"
    /\ main_vals = <<10, 15, 20, 30>>
    /\ ctx_c = ("A" :> 1 @@ "B" :> 1)
    /\ kv.vv = ("A" :> 1 @@ "B" :> 2 @@ "C" :> 1)
    /\ kv.store["x"] = <<Value(20, <<"C", 1>>), Value(30, <<"B", 2>>)>>

\* C2: a write whose context descends the store's vv leaves vv incremented
\* for the writer and the key with exactly one sibling, the payload under
\* Dot(writer, vv[writer] + 1), whatever the key held before.
Claim_C2 ==
    [][(call'.op = "set" /\ VV_descends(call'.context, kv.vv)) =>
          /\ kv'.vv = VV_increment(kv.vv, call'.client_id)
          /\ Siblings(kv', call'.key) =
                 <<Value(call'.val, <<call'.client_id, GetOr0(kv.vv, call'.client_id) + 1>>)>>
      ]_vars

Witness_C2 ==
    /\ call = SetCall("C", ("A" :> 1 @@ "B" :> 1), "x", 10)
    /\ kv.vv = ("A" :> 1 @@ "B" :> 1 @@ "C" :> 1)
    /\ kv.store["x"] = <<Value(10, <<"C", 1>>)>>

\* No two distinct siblings of a key carry dots one of which dominates the other.
Antichain(self) ==
    \A key \in DOMAIN self.store :
        \A i, j \in DOMAIN self.store[key] :
            i # j => ~Dot_descends(self.store[key][i].dot, self.store[key][j].dot)

\* C3: in every reachable state every key's siblings form an antichain under
\* dot dominance, and every write removes each sibling of its key whose dot the
\* new value's dot dominates.
Claim_C3 ==
    /\ [](Antichain(kv))
    /\ [][call'.op = "set" =>
             LET old == Siblings(kv, call'.key)
                 new == Siblings(kv', call'.key)
                 new_dot == new[Len(new)].dot
             IN  /\ Len(new) >= 1
                 /\ \A i \in DOMAIN old :
                        Dot_descends(new_dot, old[i].dot) =>
                            \A j \in DOMAIN new : new[j] # old[i]
         ]_vars

Witness_C3 ==
    /\ call = SetCall("B", VV_new, "x", 10)
    /\ kv.vv = ("A" :> 1 @@ "B" :> 2)
    /\ "y" \notin DOMAIN kv.store
    /\ kv.store["x"] = <<Value(10, <<"A", 1>>), Value(10, <<"B", 2>>)>>

\* C4: no write lowers a counter of the global context: vv' descends vv.
Claim_C4 ==
    [][/\ VV_descends(kv'.vv, kv.vv)
       /\ \A k \in Actors : GetOr0(kv'.vv, k) >= GetOr0(kv.vv, k)
      ]_vars

Witness_C4 ==
    /\ call = SetCall("C", ("B" :> 2), "y", 10)
    /\ kv.vv = ("A" :> 1 @@ "B" :> 2 @@ "C" :> 1)
    /\ "x" \in DOMAIN kv.store

\* C5: merge is commutative, associative and idempotent on vectors built by
\* increments, for VersionVector and for VectorClock.
Claim_C5 ==
    /\ VV_merge(a, b) = VV_merge(b, a)
    /\ VV_merge(VV_merge(a, b), c) = VV_merge(a, VV_merge(b, c))
    /\ VV_merge(a, a) = a
    /\ VC_merge(a, b) = VC_merge(b, a)
    /\ VC_merge(VC_merge(a, b), c) = VC_merge(a, VC_merge(b, c))
    /\ VC_merge(a, a) = a

Witness_C5 ==
    /\ a = ("A" :> 2 @@ "B" :> 1)
    /\ b = ("A" :> 1 @@ "B" :> 2)
    /\ c = ("A" :> 2 @@ "B" :> 2)
    /\ VV_merge(a, b) = c
    /\ VC_merge(a, b) = c

\* C6: a descends b exactly when every actor's counter in a (0 when missing)
\* is at least its counter in b; descends is reflexive, transitive, and
\* mutual descent means equal counters.
Claim_C6 ==
    /\ VV_descends(a, b) <=> \A k \in Actors : GetOr0(a, k) >= GetOr0(b, k)
    /\ VV_descends(a, a)
    /\ (VV_descends(a, b) /\ VV_descends(b, c)) => VV_descends(a, c)
    /\ (VV_descends(a, b) /\ VV_descends(b, a)) =>
           \A k \in Actors : GetOr0(a, k) = GetOr0(b, k)

Witness_C6 ==
    /\ a = ("A" :> 2 @@ "B" :> 2 @@ "C" :> 1)
    /\ b = ("A" :> 1 @@ "B" :> 2)
    /\ c = ("B" :> 1)
    /\ VV_descends(a, b) /\ VV_descends(b, c) /\ VV_descends(a, c)
    /\ ~VV_descends(b, a) /\ ~VV_descends(c, b)

\* C7: concurrent is symmetric and holds exactly when neither vector
\* descends the other.
Claim_C7 ==
    /\ VV_concurrent(a, b) = VV_concurrent(b, a)
    /\ VV_concurrent(a, b) <=> (~VV_descends(a, b) /\ ~VV_descends(b, a))

Witness_C7 ==
    /\ a = ("A" :> 2 @@ "B" :> 1 @@ "C" :> 2)
    /\ b = ("A" :> 1 @@ "B" :> 2 @@ "C" :> 1)
    /\ VV_concurrent(a, b)
    /\ ~VV_concurrent(a, c)

\* C8: a vector contains Dot(n, cnt) exactly when its counter for n (0 when
\* missing) is at least cnt, so incrementing n makes Dot(n, V[n] + 1)
\* contained where it was not before; Dot::descends_vv is the converse
\* comparison, cnt >= V[n].
Claim_C8 ==
    \A n \in Actors :
        /\ \A cnt \in 0..(MaxCount + 1) :
               /\ VV_descends_dot(a, <<n, cnt>>) <=> GetOr0(a, n) >= cnt
               /\ Dot_descends_vv(<<n, cnt>>, a) <=> cnt >= GetOr0(a, n)
        /\ VV_descends_dot(VV_increment(a, n), <<n, GetOr0(a, n) + 1>>)
        /\ ~VV_descends_dot(a, <<n, GetOr0(a, n) + 1>>)

Witness_C8 ==
    /\ a = ("A" :> 2 @@ "B" :> 1)
    /\ Dot_descends_vv(<<"A", 3>>, a) /\ ~VV_descends_dot(a, <<"A", 3>>)
    /\ ~Dot_descends_vv(<<"A", 1>>, a) /\ VV_descends_dot(a, <<"A", 1>>)
    /\ VV_descends_dot(a, <<"C", 0>>) /\ ~VV_descends_dot(a, <<"C", 1>>)

\* C9: a happened before b exactly when no counter of a exceeds b's and one
\* is strictly smaller (0 when missing); happened_before is irreflexive and
\* asymmetric.
Claim_C9 ==
    /\ VC_happened_before(a, b) <=>
           /\ \A k \in Actors : GetOr0(a, k) <= GetOr0(b, k)
           /\ \E k \in Actors : GetOr0(a, k) < GetOr0(b, k)
    /\ ~VC_happened_before(a, a)
    /\ VC_happened_before(a, b) => ~VC_happened_before(b, a)

Witness_C9 ==
    /\ a = ("A" :> 2 @@ "B" :> 1 @@ "C" :> 2)
    /\ b = ("A" :> 2 @@ "B" :> 2 @@ "C" :> 2)
    /\ c = ("A" :> 1 @@ "B" :> 2 @@ "C" :> 1)
    /\ VC_happened_before(a, b) /\ ~VC_happened_before(b, a)
    /\ ~VC_happened_before(a, c) /\ ~VC_happened_before(c, a)

\* C10: a read leaves the key -> siblings map and vv as they were and returns
\* the key's siblings (absent for a key never written) with a snapshot equal
\* to vv.
Claim_C10 ==
    [][call'.op = "get" =>
          /\ kv' = kv
          /\ ret' = <<IF call'.key \in DOMAIN kv.store
                      THEN Some(kv.store[call'.key])
                      ELSE None,
                      kv.vv>>
      ]_vars

Witness_C10 ==
    /\ call = GetCall("y")
    /\ ret = <<None, kv.vv>>
    /\ "y" \notin DOMAIN kv.store
    /\ kv.vv = ("A" :> 1 @@ "B" :> 1)
    /\ Len(Siblings(kv, "x")) = 2

\* The values of a sequence of siblings, as a set.
Values(siblings) == {siblings[i] : i \in DOMAIN siblings}

\* A step that is a write down the slow path: the context does not descend vv.
SlowWrite == call'.op = "set" /\ ~VV_descends(call'.context, kv.vv)

\* The dot of the value a write has just stored: the last sibling of its key.
NewDot(self, key) == self.store[key][Len(self.store[key])].dot

\* C11 as stated: on the slow path a sibling of the key is dropped exactly
\* when the write's resulting context, merge(vv, context).increment(actor),
\* contains the sibling's dot.
Orig_C11 ==
    [][SlowWrite =>
          \A v \in Values(Siblings(kv, call'.key)) :
              v \notin Values(Siblings(kv', call'.key)) <=> VV_descends_dot(kv'.vv, v.dot)
      ]_vars

\* C11, amended: on the slow path a sibling of the key is dropped exactly
\* when the new value's dot dominates the sibling's dot, dot to dot (same
\* actor, counter at least the sibling's); a sibling of another actor stays
\* although the write's resulting context contains its dot.
Claim_C11 ==
    [][SlowWrite =>
          \A v \in Values(Siblings(kv, call'.key)) :
              /\ v \notin Values(Siblings(kv', call'.key)) <=>
                     Dot_descends(NewDot(kv', call'.key), v.dot)
              /\ v.dot[1] # call'.client_id => v \in Values(Siblings(kv', call'.key))
      ]_vars

Witness_C11 ==
    /\ call = SetCall("A", ("B" :> 1), "x", 10)
    /\ kv.vv = ("A" :> 2 @@ "B" :> 1)
    /\ kv.store["x"] = <<Value(10, <<"B", 1>>), Value(10, <<"A", 2>>)>>
    /\ VV_descends_dot(kv.vv, <<"B", 1>>)
    /\ "y" \notin DOMAIN kv.store

\* C12 as stated: whenever the context supplied to a write contains the dot
\* of a sibling of the key, that sibling is gone from the key after the write,
\* on the slow path as on the fast path.
Orig_C12 ==
    [][call'.op = "set" =>
          \A v \in Values(Siblings(kv, call'.key)) :
              VV_descends_dot(call'.context, v.dot) =>
                  v \notin Values(Siblings(kv', call'.key))
      ]_vars

\* C13: a write whose context does not descend vv leaves
\* vv = merge(vv, context).increment(actor) and appends the new value, under
\* Dot(actor, max(vv[actor], context[actor]) + 1), as the key's last sibling;
\* a key without siblings gets exactly the new value.
Claim_C13 ==
    [][SlowWrite =>
          LET old == Siblings(kv, call'.key)
              new == Siblings(kv', call'.key)
              n == call'.client_id
              cnt == IF GetOr0(kv.vv, n) >= GetOr0(call'.context, n)
                     THEN GetOr0(kv.vv, n) + 1
                     ELSE GetOr0(call'.context, n) + 1
          IN  /\ kv'.vv = VV_increment(VV_merge(kv.vv, call'.context), n)
              /\ Len(new) >= 1
              /\ new[Len(new)] = Value(call'.val, <<n, cnt>>)
              /\ old = << >> => new = <<Value(call'.val, <<n, cnt>>)>>
      ]_vars

Witness_C13 ==
    /\ call = SetCall("B", ("B" :> 1 @@ "C" :> 1), "y", 10)
    /\ kv.vv = ("A" :> 1 @@ "B" :> 2 @@ "C" :> 1)
    /\ kv.store["y"] = <<Value(10, <<"B", 2>>)>>
    /\ kv.store["x"] = <<Value(10, <<"A", 1>>)>>

\* The larger of two counters.
Larger(x, y) == IF x >= y THEN x ELSE y

\* m is the point-wise maximum of v and w and their least upper bound under
\* descends, u being any vector.
IsJoin(m, v, w, u) ==
    /\ DOMAIN m = DOMAIN v \cup DOMAIN w
    /\ \A k \in Actors : GetOr0(m, k) = Larger(GetOr0(v, k), GetOr0(w, k))
    /\ VV_descends(m, v) /\ VV_descends(m, w)
    /\ (VV_descends(u, v) /\ VV_descends(u, w)) => VV_descends(u, m)

\* C14: merge(a, b) has the actors of a and of b, each with the larger of its
\* two counters (0 when missing); it descends a and b, and every vector that
\* descends both descends it.
Claim_C14 ==
    /\ IsJoin(VV_merge(a, b), a, b, c)
    /\ IsJoin(VC_merge(a, b), a, b, c)

Witness_C14 ==
    /\ a = ("A" :> 2 @@ "C" :> 1)
    /\ b = ("A" :> 1 @@ "B" :> 2)
    /\ c = ("A" :> 2 @@ "B" :> 2 @@ "C" :> 2)
    /\ VV_merge(a, b) = ("A" :> 2 @@ "B" :> 2 @@ "C" :> 1)
    /\ VV_descends(c, VV_merge(a, b)) /\ c # VV_merge(a, b)

\* C15: VectorClock's concurrent is "neither happened before the other", so
\* it holds of a clock and itself, where VersionVector's concurrent never
\* does; on vectors with different counters the two agree.
Claim_C15 ==
    /\ VC_concurrent(a, b) <=> (~VC_happened_before(a, b) /\ ~VC_happened_before(b, a))
    /\ VC_concurrent(a, a)
    /\ ~VV_concurrent(a, a)
    /\ (\E k \in Actors : GetOr0(a, k) # GetOr0(b, k)) =>
           (VC_concurrent(a, b) <=> VV_concurrent(a, b))

Witness_C15 ==
    /\ a = ("A" :> 2 @@ "B" :> 1)
    /\ b = ("A" :> 2 @@ "B" :> 1)
    /\ c = ("A" :> 1 @@ "B" :> 2)
    /\ VC_concurrent(a, b) /\ ~VV_concurrent(a, b)
    /\ VC_concurrent(a, c) /\ VV_concurrent(a, c)

\* r is v with n's counter one higher (1 when n was absent) and nothing else
\* changed.
IsIncrement(r, v, n) ==
    /\ DOMAIN r = DOMAIN v \cup {n}
    /\ r[n] = GetOr0(v, n) + 1
    /\ n \notin DOMAIN v => r[n] = 1
    /\ \A k \in DOMAIN v \ {n} : r[k] = v[k]

\* C16: increment(actor) changes the actor's counter to the old one plus 1
\* (1 for an absent actor) and leaves the other actors and their counters alone.
Claim_C16 ==
    \A n \in Actors :
        /\ IsIncrement(VV_increment(a, n), a, n)
        /\ IsIncrement(VC_increment(a, n), a, n)

Witness_C16 ==
    /\ a = ("A" :> 1 @@ "B" :> 1)
    /\ b = ("A" :> 2 @@ "B" :> 1)
    /\ c = ("A" :> 1 @@ "B" :> 1 @@ "C" :> 1)
    /\ VV_increment(a, "A") = b
    /\ VC_increment(a, "C") = c

\* Where the store holds a value: the pairs <<key, index>>.
Places(self) ==
    UNION {{<<key, i>> : i \in DOMAIN self.store[key]} : key \in DOMAIN self.store}

\* The dot of the value stored at a place.
DotAt(self, place) == self.store[place[1]][place[2]].dot

\* C17: the dot a write mints is the writer's, with a counter above the
\* writer's counter in the vv before the write and above every stored dot of
\* the writer, so vv before the write does not contain it; and no two values
\* in the store, under any keys, carry the same dot.
Claim_C17 ==
    /\ [](\A p, q \in Places(kv) : p # q => DotAt(kv, p) # DotAt(kv, q))
    /\ [][call'.op = "set" =>
             LET dot == NewDot(kv', call'.key)
             IN  /\ dot[1] = call'.client_id
                 /\ dot[2] > GetOr0(kv.vv, call'.client_id)
                 /\ ~VV_descends_dot(kv.vv, dot)
                 /\ \A p \in Places(kv) :
                        DotAt(kv, p)[1] = dot[1] => DotAt(kv, p)[2] < dot[2]
         ]_vars

Witness_C17 ==
    /\ call = SetCall("A", VV_new, "y", 10)
    /\ kv.vv = ("A" :> 2 @@ "B" :> 1)
    /\ kv.store["x"] = <<Value(10, <<"A", 1>>), Value(10, <<"B", 1>>)>>
    /\ kv.store["y"] = <<Value(10, <<"A", 2>>)>>

\* C19: a key never holds two siblings of the same actor, so it never holds
\* more siblings than there are actors that have written to the store.
Claim_C19 ==
    \A key \in DOMAIN kv.store :
        /\ \A i, j \in DOMAIN kv.store[key] :
               i # j => kv.store[key][i].dot[1] # kv.store[key][j].dot[1]
        /\ Len(kv.store[key]) <= Cardinality(writers)

Witness_C19 ==
    /\ writers = {"A", "B"}
    /\ Len(Siblings(kv, "x")) = 2
    /\ kv.vv = ("A" :> 2 @@ "B" :> 2)
    /\ "y" \notin DOMAIN kv.store

\* C20: every stored dot (n, cnt) has 1 <= cnt <= vv[n], and every counter
\* of vv is at least 1.
Claim_C20 ==
    /\ \A p \in Places(kv) :
           /\ DotAt(kv, p)[2] >= 1
           /\ DotAt(kv, p)[2] <= GetOr0(kv.vv, DotAt(kv, p)[1])
           /\ VV_descends_dot(kv.vv, DotAt(kv, p))
    /\ \A k \in DOMAIN kv.vv : kv.vv[k] >= 1

Witness_C20 ==
    /\ kv.vv = ("A" :> 1 @@ "B" :> 2 @@ "C" :> 1)
    /\ call = SetCall("C", ("B" :> 2), "x", 10)
    /\ kv.store["x"] = <<Value(10, <<"A", 1>>), Value(10, <<"C", 1>>)>>
    /\ "B" \notin writers

\* C18: when every written context is the snapshot of an earlier read, vv
\* descends the context at every write; the write takes the fast path, and
\* overwrites all siblings, exactly when no write has been applied since that
\* read; after any write since, to whatever key, it takes the slow path and
\* the siblings of the other actors stay.
Claim_C18 ==
    [][call'.op = "set" =>
          LET n == call'.client_id
              old == Siblings(kv, call'.key)
              new == Siblings(kv', call'.key)
          IN  /\ call'.context = snap[n]
              /\ VV_descends(kv.vv, call'.context)
              /\ seen[n] \in {"fresh", "stale"}
              /\ seen[n] = "fresh" <=> VV_descends(call'.context, kv.vv)
              /\ seen[n] = "fresh" =>
                     /\ Len(new) = 1
                     /\ kv'.vv = VV_increment(kv.vv, n)
              /\ seen[n] = "stale" =>
                     /\ kv'.vv # VV_increment(call'.context, n)
                     /\ \A v \in Values(old) : v.dot[1] # n => v \in Values(new)
      ]_vars

Witness_C18 ==
    /\ call = SetCall("C", ("A" :> 1), "x", 10)
    /\ snap["C"] = ("A" :> 1)
    /\ seen["C"] = "stale"
    /\ kv.vv = ("A" :> 2 @@ "C" :> 1)
    /\ kv.store["x"] = <<Value(10, <<"A", 1>>), Value(10, <<"C", 1>>)>>
    /\ kv.store["y"] = <<Value(10, <<"A", 2>>)>>

====
